---------------------------- MODULE Spec2Model ----------------------------
(***************************************************************************)
(* A model of serverPro.py: the threaded static-file HTTP server.          *)
(*                                                                         *)
(* Text is modelled as a sequence of tokens.  A token is a string standing *)
(* for one character class of the wire ("\r", "\n", " ", ":", "/", ".",    *)
(* "?", a digit) or for one indivisible word ("GET", "index", "html").     *)
(* Every string operation of the source (find, split, strip, startswith,   *)
(* upper, lower, unquote, abspath) is computed on these sequences the way  *)
(* Python computes it on characters.  Lengths are counted in tokens.       *)
(***************************************************************************)
EXTENDS Integers, Sequences, FiniteSets, TLC

\* ------------------------------------------------------------------------
\* Sequence helpers (Python string primitives on token sequences)
\* ------------------------------------------------------------------------

SetMin(S) == CHOOSE x \in S : \A y \in S : x <= y

SetMax(S) == CHOOSE x \in S : \A y \in S : y <= x

\* s[i:]  (1-based here: the tokens from position i on)
Drop(s, i) == IF i > Len(s) THEN << >> ELSE SubSeq(s, i, Len(s))

\* s[:i]  (1-based here: the first n tokens)
Take(s, n) == IF n <= 0 THEN << >> ELSE SubSeq(s, 1, IF n > Len(s) THEN Len(s) ELSE n)

\* a.startswith(p)
StartsWith(a, p) == Len(p) <= Len(a) /\ \A i \in 1..Len(p) : a[i] = p[i]

\* tok in s
Contains(s, tok) == \E i \in 1..Len(s) : s[i] = tok

\* position of the first tok in s, 0 when there is none
IndexOf(s, tok) ==
  LET I == {i \in 1..Len(s) : s[i] = tok}
  IN  IF I = {} THEN 0 ELSE SetMin(I)

Whitespace == {" ", "\t", "\r", "\n"}

\* s.strip()
Strip(s) ==
  LET I == {i \in 1..Len(s) : s[i] \notin Whitespace}
  IN  IF I = {} THEN << >> ELSE SubSeq(s, SetMin(I), SetMax(I))

\* s.split(): the maximal runs of non-whitespace tokens
RECURSIVE SplitWs(_)
SplitWs(s) ==
  LET I == {i \in 1..Len(s) : s[i] \notin Whitespace}
  IN  IF I = {} THEN << >>
      ELSE LET a == SetMin(I)
               E == {j \in a..Len(s) : s[j] \in Whitespace}
               b == IF E = {} THEN Len(s) + 1 ELSE SetMin(E)
           IN  << SubSeq(s, a, b - 1) >> \o SplitWs(Drop(s, b))

\* s.split("\r\n")
RECURSIVE SplitCRLF(_)
SplitCRLF(s) ==
  LET I == {i \in 1..(Len(s) - 1) : s[i] = "\r" /\ s[i + 1] = "\n"}
  IN  IF I = {} THEN << s >>
      ELSE LET i == SetMin(I)
           IN  << Take(s, i - 1) >> \o SplitCRLF(Drop(s, i + 2))

\* s.split("/"), every piece kept (empty ones too)
RECURSIVE SplitSlash(_)
SplitSlash(s) ==
  LET i == IndexOf(s, "/")
  IN  IF i = 0 THEN << s >>
      ELSE << Take(s, i - 1) >> \o SplitSlash(Drop(s, i + 1))

\* buffer.find(b"\r\n\r\n"): 1-based position of the terminator, 0 for -1
FindTerminator(buf) ==
  LET I == {i \in 1..(Len(buf) - 3) :
              /\ buf[i] = "\r" /\ buf[i + 1] = "\n"
              /\ buf[i + 2] = "\r" /\ buf[i + 3] = "\n"}
  IN  IF I = {} THEN 0 ELSE SetMin(I)

\* str.upper() / str.lower() on the words the requests use
UpperTok(t) ==
  CASE t = "get"  -> "GET"
    [] t = "head" -> "HEAD"
    [] t = "post" -> "POST"
    [] OTHER      -> t

LowerTok(t) ==
  CASE t = "Close"      -> "close"
    [] t = "CLOSE"      -> "close"
    [] t = "Keep-Alive" -> "keep-alive"
    [] OTHER            -> t

Upper(s) == [i \in 1..Len(s) |-> UpperTok(s[i])]

Lower(s) == [i \in 1..Len(s) |-> LowerTok(s[i])]

\* No decoding: each escape stays as it was sent
UnquoteTok_Raw(t) == t

\* urllib.parse.unquote: each escape becomes the character it encodes
UnquoteTok(t) ==
  CASE t = "%2e" -> "."
    [] t = "%2E" -> "."
    [] t = "%2f" -> "/"
    [] OTHER     -> t

unquote(s) == [i \in 1..Len(s) |-> UnquoteTok(s[i])]

\* ------------------------------------------------------------------------
\* The host: working directory, filesystem, MIME table, clock
\* ------------------------------------------------------------------------

\* os.getcwd(): the directory the server was started in, "/srv/w"
Cwd == << "/", "srv", "/", "w" >>

\* The files of the host.  Paths are absolute and normalised.  mtime2 is the
\* modification time in half seconds (a float mtime with a sub-second part is
\* an odd mtime2).  readable = FALSE: open() raises PermissionError.
\* statok = FALSE: the file is removed between os.path.exists and
\* os.path.getsize, which then raises.  "sub" is a directory with an
\* index.html, "empty" one without.  "/srv/w2" is a sibling of the
\* working directory whose name begins with the working directory's name.
Files ==
  { [path |-> << "/" >>, kind |-> "dir", content |-> << >>,
     mtime2 |-> 0, readable |-> TRUE, statok |-> TRUE],
    [path |-> << "/", "srv" >>, kind |-> "dir", content |-> << >>,
     mtime2 |-> 0, readable |-> TRUE, statok |-> TRUE],
    [path |-> Cwd, kind |-> "dir", content |-> << >>,
     mtime2 |-> 0, readable |-> TRUE, statok |-> TRUE],
    [path |-> Cwd \o << "/", "index", ".", "html" >>, kind |-> "file",
     content |-> << "h", "e", "l", "l", "o" >>,
     mtime2 |-> 100, readable |-> TRUE, statok |-> TRUE],
    [path |-> Cwd \o << "/", "frac", ".", "html" >>, kind |-> "file",
     content |-> << "f", "r" >>,
     mtime2 |-> 101, readable |-> TRUE, statok |-> TRUE],
    [path |-> Cwd \o << "/", "locked", ".", "html" >>, kind |-> "file",
     content |-> << "k", "e", "y" >>,
     mtime2 |-> 100, readable |-> FALSE, statok |-> TRUE],
    [path |-> Cwd \o << "/", "tmp", ".", "txt" >>, kind |-> "file",
     content |-> << "t" >>,
     mtime2 |-> 100, readable |-> TRUE, statok |-> FALSE],
    [path |-> Cwd \o << "/", "data", ".", "xyz" >>, kind |-> "file",
     content |-> << "x", "y", "z", "!" >>,
     mtime2 |-> 100, readable |-> TRUE, statok |-> TRUE],
    [path |-> Cwd \o << "/", "sub" >>, kind |-> "dir", content |-> << >>,
     mtime2 |-> 0, readable |-> TRUE, statok |-> TRUE],
    [path |-> Cwd \o << "/", "sub", "/", "index", ".", "html" >>, kind |-> "file",
     content |-> << "s", "u", "b" >>,
     mtime2 |-> 100, readable |-> TRUE, statok |-> TRUE],
    [path |-> Cwd \o << "/", "empty" >>, kind |-> "dir", content |-> << >>,
     mtime2 |-> 0, readable |-> TRUE, statok |-> TRUE],
    [path |-> << "/", "srv", "/", "w", "2" >>, kind |-> "dir", content |-> << >>,
     mtime2 |-> 0, readable |-> TRUE, statok |-> TRUE],
    [path |-> << "/", "srv", "/", "w", "2", "/", "secret", ".", "txt" >>, kind |-> "file",
     content |-> << "p", "w", "d" >>,
     mtime2 |-> 100, readable |-> TRUE, statok |-> TRUE] }

\* os.path.exists
exists(p) == \E f \in Files : f.path = p

FileAt(p) == CHOOSE f \in Files : f.path = p

\* os.path.isdir
isdir(p) == exists(p) /\ FileAt(p).kind = "dir"

\* posixpath.normpath on the components of an absolute path: "" and "." are
\* dropped, ".." removes the component before it and is dropped at the root
RECURSIVE NormComps(_, _)
NormComps(comps, acc) ==
  IF comps = << >> THEN acc
  ELSE LET c == Head(comps)
       IN  IF c = << >> \/ c = << "." >> THEN NormComps(Tail(comps), acc)
           ELSE IF c = << ".", "." >>
                THEN NormComps(Tail(comps),
                               IF acc = << >> THEN acc ELSE Take(acc, Len(acc) - 1))
                ELSE NormComps(Tail(comps), Append(acc, c))

RECURSIVE JoinSlash(_)
JoinSlash(comps) ==
  IF comps = << >> THEN << >>
  ELSE << "/" >> \o Head(comps) \o JoinSlash(Tail(comps))

\* os.path.abspath of a path that starts with "/" (every argument the server
\* passes is os.getcwd() + path): no symlink is resolved
abspath(p) ==
  LET comps == NormComps(SplitSlash(p), << >>)
  IN  IF comps = << >> THEN << "/" >> ELSE JoinSlash(comps)

\* mimetypes.types_map, the entries the host's files need
MimeTable(ext) ==
  CASE ext = "html" -> "text/html"
    [] ext = "txt"  -> "text/plain"
    [] ext = "css"  -> "text/css"
    [] ext = "png"  -> "image/png"
    [] OTHER        -> "None"

\* posixpath.splitext(p)[1] without its dot: the tokens after the last dot
\* of the last component (a dot that starts the component does not count)
Extension(p) ==
  LET comps == SplitSlash(p)
      base  == comps[Len(comps)]
      dots  == {i \in 2..Len(base) : base[i] = "."}
  IN  IF dots = {} THEN << >> ELSE Drop(base, SetMax(dots) + 1)

\* A guess that falls back to a generic type for an unmapped extension
guess_type_Fallback(p) ==
  IF Len(Extension(p)) = 1 /\ MimeTable(Extension(p)[1]) # "None"
  THEN MimeTable(Extension(p)[1]) ELSE "application/octet-stream"

\* mimetypes.guess_type(full_path)[0]: the type the table gives the path's
\* extension, "None" when it has none or the table does not map it
guess_type(p) ==
  IF Len(Extension(p)) = 1 THEN MimeTable(Extension(p)[1]) ELSE "None"

\* The clock, in seconds: the time of every request of a run
Now == 60

Digits == << "0", "1", "2", "3", "4", "5", "6", "7", "8", "9" >>

\* strftime("%a, %d %b %Y %H:%M:%S GMT") / email.utils.formatdate: a time in
\* whole seconds written as "@d:d"
FormatDate(secs) ==
  << "@", Digits[((secs \div 10) % 10) + 1], ":", Digits[(secs % 10) + 1] >>

DigitVal(t) == IF \E i \in 1..10 : Digits[i] = t
               THEN (CHOOSE i \in 1..10 : Digits[i] = t) - 1 ELSE -1

\* email.utils.parsedate_to_datetime(v).timestamp(): the whole seconds of a
\* well-formed date, -1 when parsing raises
ParseDate(v) ==
  IF /\ Len(v) = 4 /\ v[1] = "@" /\ v[3] = ":"
     /\ DigitVal(v[2]) >= 0 /\ DigitVal(v[4]) >= 0
  THEN 10 * DigitVal(v[2]) + DigitVal(v[4])
  ELSE -1

\* ------------------------------------------------------------------------
\* parse_request
\* ------------------------------------------------------------------------

\* dict.get(key, ""): the value stored under exactly this key
Get(headers, key) == IF key \in DOMAIN headers THEN headers[key] ELSE << >>

\* A header loop that keeps the first value stored under a name
RECURSIVE ParseHeaders_FirstWins(_, _)
ParseHeaders_FirstWins(lines, headers) ==
  IF lines = << >> \/ Head(lines) = << >> THEN headers
  ELSE LET line == Head(lines)
           i    == IndexOf(line, ":")
       IN  IF i = 0 THEN ParseHeaders_FirstWins(Tail(lines), headers)
           ELSE LET key   == Strip(Take(line, i - 1))
                    value == Strip(Drop(line, i + 1))
                IN  ParseHeaders_FirstWins(Tail(lines),
                      [k \in DOMAIN headers \cup {key} |->
                         IF k \in DOMAIN headers THEN headers[k] ELSE value])

\* The header loop of parse_request: stop at an empty line, skip a line
\* without a colon, split the others at their first colon and store the
\* stripped value under the stripped name (a later line replaces an earlier)
RECURSIVE ParseHeaders(_, _)
ParseHeaders(lines, headers) ==
  IF lines = << >> \/ Head(lines) = << >> THEN headers
  ELSE LET line == Head(lines)
           i    == IndexOf(line, ":")
       IN  IF i = 0 THEN ParseHeaders(Tail(lines), headers)
           ELSE LET key   == Strip(Take(line, i - 1))
                    value == Strip(Drop(line, i + 1))
                IN  ParseHeaders(Tail(lines),
                      [k \in DOMAIN headers \cup {key} |->
                         IF k = key THEN value ELSE headers[k]])

NoHeaders == [k \in {} |-> << >>]

\* A ValueError of parse_request, carrying its message
ParseError(msg) ==
  [err |-> msg, method |-> << >>, path |-> << >>, version |-> << >>,
   headers |-> NoHeaders, request_line |-> << >>]

\* The root check of parse_request: os.path.abspath(os.getcwd() + path)
\* .startswith(os.getcwd()), a comparison of strings
UnderCwd(path) == StartsWith(abspath(Cwd \o path), Cwd)

\* parse_request(request_data): err = "" and the five results, or the
\* message of the ValueError raised
parse_request(request_data) ==
  LET lines        == SplitCRLF(request_data)
      request_line == lines[1]
      parts        == SplitWs(request_line)
  IN  IF request_line = << >> THEN ParseError("Bad Request")
      ELSE IF Len(parts) # 3 THEN ParseError("Bad Request")
      ELSE LET method  == Upper(parts[1])
               version == parts[3]
               target  == parts[2]
           IN  IF version \notin {<< "HTTP/1.0" >>, << "HTTP/1.1" >>}
               THEN ParseError("HTTP Version Not Supported")
               ELSE IF method \notin {<< "GET" >>, << "HEAD" >>}
               THEN ParseError("Not Implemented")
               ELSE IF ~StartsWith(target, << "/" >>)
               THEN ParseError("Bad Request")
               ELSE LET q    == IndexOf(target, "?")
                        noq  == IF q = 0 THEN target ELSE Take(target, q - 1)
                        path == unquote(noq)
                    IN  IF ~UnderCwd(path) THEN ParseError("Bad Request")
                        ELSE [err |-> "", method |-> method, path |-> path,
                              version |-> version,
                              headers |-> ParseHeaders(Tail(lines), NoHeaders),
                              request_line |-> request_line]

\* ------------------------------------------------------------------------
\* build_response
\* ------------------------------------------------------------------------

\* str(status_code)
CodeStr(code) ==
  CASE code = 200 -> "200" [] code = 304 -> "304" [] code = 400 -> "400"
    [] code = 403 -> "403" [] code = 404 -> "404" [] code = 415 -> "415"
    [] code = 500 -> "500" [] code = 501 -> "501" [] code = 505 -> "505"

\* The HTML body of an error response
HtmlBody(code, text) ==
  << "<html><body><h1>", CodeStr(code), " ", text, "</h1></body></html>" >>

\* The default headers of every response built by build_response
DefaultHeaders ==
  [n \in {"Date", "Server"} |->
     IF n = "Date" THEN FormatDate(Now) ELSE << "SimplePythonServer/1.0" >>]

\* headers[name] = value
SetHeader(headers, name, value) ==
  [n \in DOMAIN headers \cup {name} |-> IF n = name THEN value ELSE headers[n]]

\* headers.pop(name, None)
PopHeader(headers, name) == [n \in DOMAIN headers \ {name} |-> headers[n]]

\* An error return without the HTML page
ErrorResponse_NoBody(code, text, headers) ==
  [status |-> code, text |-> text, body |-> << >>,
   headers |-> SetHeader(SetHeader(headers, "Content-Length", 0),
                         "Content-Type", << "text/html" >>)]

\* An error return of build_response: the HTML body with its length and type
ErrorResponse(code, text, headers) ==
  LET body == HtmlBody(code, text)
  IN  [status |-> code, text |-> text, body |-> body,
       headers |-> SetHeader(SetHeader(headers, "Content-Length", Len(body)),
                             "Content-Type", << "text/html" >>)]

\* The path build_response resolves: "/" is "/index.html"
Resolve(path) ==
  abspath(Cwd \o (IF path = << "/" >> THEN << "/", "index", ".", "html" >> ELSE path))

\* A check that takes a value that is no date for a match
NotModified_UnparsedMatches(mtime2, request_headers) ==
  LET ims_value == Get(request_headers, << "If-Modified-Since" >>)
      ims       == ParseDate(ims_value)
  IN  ims_value # << >> /\ (ims < 0 \/ mtime2 <= 2 * ims)

\* The conditional check of build_response: the If-Modified-Since value is
\* non-empty, parses, and last_mod_ts <= ims_dt.timestamp(); the file's
\* modification time is compared as the float os.path.getmtime returned
NotModified(mtime2, request_headers) ==
  LET ims_value == Get(request_headers, << "If-Modified-Since" >>)
      ims       == ParseDate(ims_value)
  IN  ims_value # << >> /\ ims >= 0 /\ mtime2 <= 2 * ims

\* A 304 that keeps the Content-Type of the file
NotModifiedResponse_KeepsType(headers) ==
  [status |-> 304, text |-> "Not Modified", body |-> << >>,
   headers |-> SetHeader(headers, "Content-Length", 0)]

\* The 304 return of build_response: no Content-Type, Content-Length "0",
\* an empty body
NotModifiedResponse(headers) ==
  [status |-> 304, text |-> "Not Modified", body |-> << >>,
   headers |-> SetHeader(PopHeader(headers, "Content-Type"), "Content-Length", 0)]

\* A Content-Length always taken from the body read
ContentLength_BodyOnly(method, file_size, body) == Len(body)

\* content_length = file_size if method == "HEAD" else len(body)
ContentLength(method, file_size, body) ==
  IF method = << "HEAD" >> THEN file_size ELSE Len(body)

\* build_response(method, path, request_headers)
build_response(method, path, request_headers) ==
  LET full_path == Resolve(path)
  IN  IF ~StartsWith(full_path, Cwd)
      THEN ErrorResponse(400, "Bad Request", DefaultHeaders)
      ELSE IF ~exists(full_path)
      THEN ErrorResponse(404, "Not Found", DefaultHeaders)
      ELSE IF isdir(full_path)
      THEN ErrorResponse(404, "Not Found", DefaultHeaders)
      ELSE IF guess_type(full_path) = "None"
      THEN ErrorResponse(415, "Unsupported Media Type", DefaultHeaders)
      ELSE LET f  == FileAt(full_path)
               h1 == SetHeader(DefaultHeaders, "Content-Type",
                               << guess_type(full_path) >>)
           IN  IF ~f.statok
               THEN ErrorResponse(500, "Internal Server Error", h1)
               ELSE LET file_size == Len(f.content)
                        h2 == SetHeader(h1, "Last-Modified",
                                        FormatDate(f.mtime2 \div 2))
                    IN  IF NotModified(f.mtime2, request_headers)
                        THEN NotModifiedResponse(h2)
                        ELSE IF method = << "GET" >> /\ ~f.readable
                        THEN ErrorResponse(500, "Internal Server Error", h2)
                        ELSE LET body == IF method = << "GET" >> THEN f.content
                                         ELSE << >>
                                 content_length ==
                                   ContentLength(method, file_size, body)
                             IN  [status |-> 200, text |-> "OK", body |-> body,
                                  headers |-> SetHeader(h2, "Content-Length",
                                                        content_length)]

\* ------------------------------------------------------------------------
\* The clients: the bytes a peer sends on one connection
\* ------------------------------------------------------------------------

CRLF == << "\r", "\n" >>

RECURSIVE JoinLines(_)
JoinLines(lines) ==
  IF lines = << >> THEN << >> ELSE Head(lines) \o CRLF \o JoinLines(Tail(lines))

\* One request as the client writes it (client.py send_request): the request
\* line, the header lines, each ended by CRLF, and the blank line
Request(method, target, version, lines) ==
  method \o << " " >> \o target \o << " " >> \o version \o CRLF
    \o JoinLines(lines) \o CRLF

HostLine == << "Host", ":", " ", "x" >>

ConnectionLine(value) == << "Connection", ":", " ", value >>

IfModifiedSinceLine(secs) == << "If-Modified-Since", ":", " " >> \o FormatDate(secs)

V11 == << "HTTP/1.1" >>

V10 == << "HTTP/1.0" >>

GET == << "GET" >>

HEAD == << "HEAD" >>

\* Request targets: files of every kind, a directory, and ways out of the
\* working directory
Targets ==
  { << "/" >>,
    << "/", "index", ".", "html" >>,
    << "/", "frac", ".", "html" >>,
    << "/", "locked", ".", "html" >>,
    << "/", "tmp", ".", "txt" >>,
    << "/", "data", ".", "xyz" >>,
    << "/", "nofile", ".", "html" >>,
    << "/", "sub" >>,
    << "/", "empty" >>,
    << "/", "sub", "/", ".", ".", "/", "index", ".", "html" >>,
    << "/", ".", ".", "/", "server", ".", "log" >>,
    << "/", ".", ".", "/", "w", "2", "/", "secret", ".", "txt" >>,
    << "/", "%2e", "%2e", "/", "w", "2", "/", "secret", ".", "txt" >>,
    << "/", "%2e", "%2E", "/", "server", ".", "log" >>,
    << "/", "index", ".", "html", "?", "v" >> }

\* The header blocks a client may add after the request line
ConnectionChoices ==
  { << >>, << ConnectionLine("close") >>, << ConnectionLine("keep-alive") >> }

\* Requests for every target, both methods, both versions, every Connection
\* choice (HTTP/1.1 requests carry Host)
ResourceRequests ==
  { Request(m, t, v, (IF v = V11 THEN << HostLine >> ELSE << >>) \o c) :
      m \in {GET, HEAD}, t \in Targets, v \in {V11, V10}, c \in ConnectionChoices }

\* Conditional requests: dates before, at and after the whole second of the
\* files' modification times, and a value that is no date
ConditionalRequests ==
  { Request(m, t, V11, << HostLine >> \o c \o << i >>) :
      m \in {GET, HEAD},
      t \in { << "/", "index", ".", "html" >>, << "/", "frac", ".", "html" >>,
              << "/", "locked", ".", "html" >>, << "/", "data", ".", "xyz" >> },
      c \in { << >>, << ConnectionLine("close") >> },
      i \in { IfModifiedSinceLine(49), IfModifiedSinceLine(50),
              IfModifiedSinceLine(51),
              << "If-Modified-Since", ":", " ", "yesterday" >> } }

\* Requests the parser refuses, and requests with unusual spelling
OddRequests ==
  { Request(<< "POST" >>, << "/", "index", ".", "html" >>, V11, << HostLine >>),
    Request(<< "POST" >>, << "/", "index", ".", "html" >>, << "HTTP/2.0" >>, << >>),
    Request(GET, << "/", "index", ".", "html" >>, << "HTTP/2.0" >>, << >>),
    Request(GET, << "index", ".", "html" >>, V11, << HostLine >>),
    Request(<< "POST" >>, << "index", ".", "html" >>, V10, << >>),
    Request(<< "get" >>, << "/", "index", ".", "html" >>, V10, << >>),
    GET \o << " ", "/" >> \o CRLF \o CRLF,
    CRLF \o CRLF,
    Request(GET, << "/" >>, V11, << << "Host", ":", " ", "x" >>,
                                    << "connection", ":", " ", "close" >> >>),
    Request(GET, << "/" >>, V11, << ConnectionLine("Close") >>),
    Request(GET, << "/" >>, V11, << ConnectionLine("close"),
                                    << "junk" >>,
                                    ConnectionLine("keep-alive") >>),
    Request(GET, << "/" >>, V10, << ConnectionLine("keep-alive"),
                                    ConnectionLine("close") >>),
    Request(GET, << "/", "index", ".", "html" >>, V10,
            << IfModifiedSinceLine(51), << "junk" >>, IfModifiedSinceLine(49) >>),
    Request(GET, << "/", "index", ".", "html" >>, V10,
            << IfModifiedSinceLine(49), IfModifiedSinceLine(51) >>) }

\* The requests a client pipelines: one that keeps the connection (200), one
\* that closes it by negotiation (404), one with a fatal status (500), and
\* one the parser refuses (501)
PipelineRequests ==
  { Request(GET, << "/" >>, V11, << HostLine >>),
    Request(HEAD, << "/", "nofile" >>, V10, << >>),
    Request(GET, << "/", "locked", ".", "html" >>, V11, << >>),
    Request(<< "POST" >>, << "/" >>, V11, << >>) }

\* The most requests one client pipelines
MaxReqs == 3

\* The concatenations of at most n pipelined requests
RECURSIVE Pipelines(_)
Pipelines(n) ==
  IF n = 0 THEN { << >> }
  ELSE LET shorter == Pipelines(n - 1)
       IN  shorter \cup { p \o r : p \in shorter, r \in PipelineRequests }

\* An unfinished request: the peer stops before the blank line
PartialRequest == GET \o << " ", "/", " ", "HTTP/1.1" >> \o CRLF

\* Everything one client may send on its connection
Scripts ==
  ResourceRequests \cup ConditionalRequests \cup OddRequests
    \cup (Pipelines(MaxReqs) \ { << >> })
    \cup { p \o PartialRequest : p \in Pipelines(1) }

\* ------------------------------------------------------------------------
\* State
\* ------------------------------------------------------------------------

\* The connections clients may open
Conns == {1, 2}

VARIABLES
  backlog,     \* connections waiting in the listen queue for accept()
  pc,          \* where each connection's worker is in handle_client
  peer,        \* the client's end: "open", "closed" (FIN sent), "reset"
  pending,     \* bytes the client sent that the worker has not received
  buffer,      \* handle_client's buffer
  keep_alive,  \* handle_client's keep_alive
  loc,         \* handle_client's method, path, version, headers, request_line
  resp,        \* the response the worker is about to send
  site,        \* the branch the worker is on: "ok", "perr", "exc"
  wire,        \* every sendall of the worker, in order, with its outcome
  received,    \* every byte recv returned (history)
  consumed,    \* every request_bytes sliced out of the buffer (history)
  log,         \* the lines of server.log
  log_lock     \* the worker holding log_lock, 0 when it is free

vars == << backlog, pc, peer, pending, buffer, keep_alive, loc, resp, site,
           wire, received, consumed, log, log_lock >>

\* The locals of handle_client before the first successful parse_request:
\* method, path, version, headers and request_line are not bound
NoLocals ==
  [bound |-> FALSE, method |-> << >>, path |-> << >>, version |-> << >>,
   headers |-> NoHeaders, request_line |-> << >>]

NoResponse ==
  [version |-> << >>, status |-> 0, text |-> "", headers |-> NoHeaders,
   body |-> << >>, conn_close |-> FALSE]

\* The state before any connection is accepted: every client with a script
\* has connected and written it
InitState(scripts) ==
  /\ backlog = {c \in Conns : scripts[c] # << >>}
  /\ pc = [c \in Conns |-> "new"]
  /\ peer = [c \in Conns |-> "open"]
  /\ pending = scripts
  /\ buffer = [c \in Conns |-> << >>]
  /\ keep_alive = [c \in Conns |-> TRUE]
  /\ loc = [c \in Conns |-> NoLocals]
  /\ resp = [c \in Conns |-> NoResponse]
  /\ site = [c \in Conns |-> "ok"]
  /\ wire = [c \in Conns |-> << >>]
  /\ received = [c \in Conns |-> << >>]
  /\ consumed = [c \in Conns |-> << >>]
  /\ log = << >>
  /\ log_lock = 0

\* One client, on connection 1
Init == \E s \in Scripts : InitState([c \in Conns |-> IF c = 1 THEN s ELSE << >>])

\* ------------------------------------------------------------------------
\* start_server and handle_client
\* ------------------------------------------------------------------------

\* The most bytes one conn.recv(1024) returns
RecvSize == 1024

\* An accept loop that serves each connection itself: it accepts the next
\* one only when no connection is being served
Accept_Serial(c) ==
  /\ c \in backlog
  /\ \A d \in Conns \ {c} : pc[d] \in {"new", "done"}
  /\ backlog' = backlog \ {c}
  /\ pc' = [pc EXCEPT ![c] = "read"]
  /\ buffer' = [buffer EXCEPT ![c] = << >>]
  /\ keep_alive' = [keep_alive EXCEPT ![c] = TRUE]
  /\ UNCHANGED << peer, pending, loc, resp, site, wire, received, consumed,
                  log, log_lock >>

\* start_server: accept a connection and start its worker thread, which
\* enters handle_client with an empty buffer and keep_alive = True
Accept(c) ==
  /\ c \in backlog
  /\ backlog' = backlog \ {c}
  /\ pc' = [pc EXCEPT ![c] = "read"]
  /\ buffer' = [buffer EXCEPT ![c] = << >>]
  /\ keep_alive' = [keep_alive EXCEPT ![c] = TRUE]
  /\ UNCHANGED << peer, pending, loc, resp, site, wire, received, consumed,
                  log, log_lock >>

\* A recv into one buffer shared by all workers, as a module-level buffer
\* would be
RecvData_SharedBuffer(c) ==
  /\ pc[c] = "read"
  /\ FindTerminator(buffer[c]) = 0
  /\ peer[c] # "reset"
  /\ \E n \in 1..Len(pending[c]) :
       /\ n <= RecvSize
       /\ buffer' = [d \in Conns |-> buffer[d] \o Take(pending[c], n)]
       /\ received' = [received EXCEPT ![c] = @ \o Take(pending[c], n)]
       /\ pending' = [pending EXCEPT ![c] = Drop(@, n + 1)]
  /\ UNCHANGED << backlog, pc, peer, keep_alive, loc, resp, site, wire,
                  consumed, log, log_lock >>

\* The inner loop of handle_client, no terminator in the buffer: recv
\* returns some of the bytes the client sent, which are appended
RecvData(c) ==
  /\ pc[c] = "read"
  /\ FindTerminator(buffer[c]) = 0
  /\ peer[c] # "reset"
  /\ \E n \in 1..Len(pending[c]) :
       /\ n <= RecvSize
       /\ buffer' = [buffer EXCEPT ![c] = @ \o Take(pending[c], n)]
       /\ received' = [received EXCEPT ![c] = @ \o Take(pending[c], n)]
       /\ pending' = [pending EXCEPT ![c] = Drop(@, n + 1)]
  /\ UNCHANGED << backlog, pc, peer, keep_alive, loc, resp, site, wire,
                  consumed, log, log_lock >>

\* A zero-byte read treated as a failure: the handler goes to its exception
\* branch instead of leaving the loop
RecvEof_AsError(c) ==
  /\ pc[c] = "read"
  /\ FindTerminator(buffer[c]) = 0
  /\ peer[c] = "closed"
  /\ pending[c] = << >>
  /\ keep_alive' = [keep_alive EXCEPT ![c] = FALSE]
  /\ pc' = [pc EXCEPT ![c] = "except"]
  /\ UNCHANGED << backlog, peer, pending, buffer, loc, resp, site, wire,
                  received, consumed, log, log_lock >>

\* recv returns b"": the client has closed and everything it sent was read.
\* keep_alive = False, leave both loops
RecvEof(c) ==
  /\ pc[c] = "read"
  /\ FindTerminator(buffer[c]) = 0
  /\ peer[c] = "closed"
  /\ pending[c] = << >>
  /\ keep_alive' = [keep_alive EXCEPT ![c] = FALSE]
  /\ pc' = [pc EXCEPT ![c] = "close"]
  /\ UNCHANGED << backlog, peer, pending, buffer, loc, resp, site, wire,
                  received, consumed, log, log_lock >>

\* recv raises ConnectionResetError, caught by `except Exception`
RecvReset(c) ==
  /\ pc[c] = "read"
  /\ FindTerminator(buffer[c]) = 0
  /\ peer[c] = "reset"
  /\ pc' = [pc EXCEPT ![c] = "except"]
  /\ UNCHANGED << backlog, peer, pending, buffer, keep_alive, loc, resp, site,
                  wire, received, consumed, log, log_lock >>

\* A mapping that tells the version error apart and answers 400 for the rest
ErrorStatus_AllBad(msg) ==
  IF msg = "HTTP Version Not Supported" THEN 505 ELSE 400

\* The status of a ValueError of parse_request
ErrorStatus(msg) ==
  IF msg = "HTTP Version Not Supported" THEN 505
  ELSE IF msg = "Not Implemented" THEN 501
  ELSE 400

ErrorText(msg) ==
  IF msg = "HTTP Version Not Supported" THEN "HTTP Version Not Supported"
  ELSE IF msg = "Not Implemented" THEN "Not Implemented"
  ELSE "Bad Request"

\* The response handle_client writes for a request parse_request refused
ParseErrorResponse(msg) ==
  LET body == HtmlBody(ErrorStatus(msg), ErrorText(msg))
  IN  [version |-> V11, status |-> ErrorStatus(msg), text |-> ErrorText(msg),
       headers |-> [n \in {"Content-Length", "Content-Type", "Connection", "Date"} |->
                      CASE n = "Content-Length" -> Len(body)
                        [] n = "Content-Type"   -> << "text/html" >>
                        [] n = "Connection"     -> << "close" >>
                        [] n = "Date"           -> FormatDate(Now)],
       body |-> body, conn_close |-> TRUE]

\* The Connection negotiation of handle_client: TRUE when the connection is
\* to be closed (conn_close)
ConnClose(version, headers) ==
  IF version = V11
  THEN Lower(Get(headers, << "Connection" >>)) = << "close" >>
  ELSE Lower(Get(headers, << "Connection" >>)) # << "keep-alive" >>

\* A handler that writes the body whatever the method is
SuccessResponse_AlwaysBody(req) ==
  LET r  == build_response(req.method, req.path, req.headers)
      cc == ConnClose(req.version, req.headers)
  IN  [version |-> req.version, status |-> r.status, text |-> r.text,
       headers |-> SetHeader(r.headers, "Connection",
                             IF cc THEN << "close" >> ELSE << "keep-alive" >>),
       body |-> r.body, conn_close |-> cc]

\* The response handle_client writes for a parsed request: build_response,
\* the Connection header, and the body dropped for HEAD and 304
SuccessResponse(req) ==
  LET r  == build_response(req.method, req.path, req.headers)
      cc == ConnClose(req.version, req.headers)
  IN  [version |-> req.version, status |-> r.status, text |-> r.text,
       headers |-> SetHeader(r.headers, "Connection",
                             IF cc THEN << "close" >> ELSE << "keep-alive" >>),
       body |-> IF req.method = HEAD \/ r.status = 304 THEN << >> ELSE r.body,
       conn_close |-> cc]

\* A slice that skips one CRLF only: buffer[header_end + 2:]
AfterSlice_ShortSkip(buf) == Drop(buf, FindTerminator(buf) + 2)

\* The buffer after one request is sliced out: buffer[header_end + 4:]
AfterSlice(buf) == Drop(buf, FindTerminator(buf) + 4)

\* The request sliced out: buffer[:header_end]
RequestBytes(buf) == Take(buf, FindTerminator(buf) - 1)

\* A terminator is in the buffer: slice one request out, parse it and build
\* the response for it
Process(c) ==
  /\ pc[c] = "read"
  /\ FindTerminator(buffer[c]) # 0
  /\ LET request_bytes == RequestBytes(buffer[c])
         req == parse_request(request_bytes)
     IN  /\ buffer' = [buffer EXCEPT ![c] = AfterSlice(@)]
         /\ consumed' = [consumed EXCEPT ![c] = Append(@, request_bytes)]
         /\ IF req.err # ""
            THEN /\ resp' = [resp EXCEPT ![c] = ParseErrorResponse(req.err)]
                 /\ site' = [site EXCEPT ![c] = "perr"]
                 /\ loc' = loc
            ELSE /\ loc' = [loc EXCEPT ![c] =
                              [bound |-> TRUE, method |-> req.method,
                               path |-> req.path, version |-> req.version,
                               headers |-> req.headers,
                               request_line |-> req.request_line]]
                 /\ resp' = [resp EXCEPT ![c] = SuccessResponse(req)]
                 /\ site' = [site EXCEPT ![c] = "ok"]
  /\ pc' = [pc EXCEPT ![c] = "send"]
  /\ UNCHANGED << backlog, peer, pending, keep_alive, wire, received, log,
                  log_lock >>

\* One sendall as the wire records it
Sent(c, r, ok) ==
  [req |-> Len(consumed[c]), version |-> r.version, status |-> r.status,
   text |-> r.text, headers |-> r.headers, body |-> r.body, ok |-> ok]

\* A send that writes nothing when the response has no body
Send_SkipsEmptyBody(c) ==
  /\ pc[c] = "send"
  /\ wire' = [wire EXCEPT ![c] =
                IF resp[c].body = << >> THEN @
                ELSE Append(@, Sent(c, resp[c], peer[c] # "reset"))]
  /\ pc' = [pc EXCEPT ![c] = IF peer[c] = "reset" THEN "except" ELSE "log"]
  /\ UNCHANGED << backlog, peer, pending, buffer, keep_alive, loc, resp, site,
                  received, consumed, log, log_lock >>

\* conn.sendall of the response: it raises when the client has reset the
\* connection, and the exception is caught by `except Exception`
Send(c) ==
  /\ pc[c] = "send"
  /\ wire' = [wire EXCEPT ![c] = Append(@, Sent(c, resp[c], peer[c] # "reset"))]
  /\ pc' = [pc EXCEPT ![c] = IF peer[c] = "reset" THEN "except" ELSE "log"]
  /\ UNCHANGED << backlog, peer, pending, buffer, keep_alive, loc, resp, site,
                  received, consumed, log, log_lock >>

\* The response of the `except Exception` handler
InternalErrorResponse ==
  LET body == HtmlBody(500, "Internal Server Error")
  IN  [version |-> V11, status |-> 500, text |-> "Internal Server Error",
       headers |-> [n \in {"Content-Length", "Content-Type", "Connection", "Date"} |->
                      CASE n = "Content-Length" -> Len(body)
                        [] n = "Content-Type"   -> << "text/html" >>
                        [] n = "Connection"     -> << "close" >>
                        [] n = "Date"           -> FormatDate(Now)],
       body |-> body, conn_close |-> TRUE]

\* A handler that logs and leaves the loop without writing anything
Except_NoWrite(c) ==
  /\ pc[c] = "except"
  /\ resp' = [resp EXCEPT ![c] = InternalErrorResponse]
  /\ site' = [site EXCEPT ![c] = "exc"]
  /\ pc' = [pc EXCEPT ![c] = "log"]
  /\ UNCHANGED << backlog, peer, pending, buffer, keep_alive, loc, wire,
                  received, consumed, log, log_lock >>

\* `except Exception`: try to send a 500 response (a failure of this sendall
\* is ignored), then log and leave the loop
Except(c) ==
  /\ pc[c] = "except"
  /\ resp' = [resp EXCEPT ![c] = InternalErrorResponse]
  /\ wire' = [wire EXCEPT ![c] =
                Append(@, Sent(c, InternalErrorResponse, peer[c] # "reset"))]
  /\ site' = [site EXCEPT ![c] = "exc"]
  /\ pc' = [pc EXCEPT ![c] = "log"]
  /\ UNCHANGED << backlog, peer, pending, buffer, keep_alive, loc, received,
                  consumed, log, log_lock >>

\* The request line each call of log_activity passes
LoggedLine(c) ==
  CASE site[c] = "ok" ->
         loc[c].method \o << " " >> \o loc[c].path \o << " " >> \o loc[c].version
    [] site[c] = "perr" ->
         IF loc[c].bound THEN loc[c].request_line ELSE << "<invalid request>" >>
    [] site[c] = "exc" ->
         IF loc[c].bound
         THEN loc[c].method \o << " " >> \o loc[c].path \o << " " >> \o loc[c].version
         ELSE << " ", " " >>

\* An acquire that does not wait for the lock to be free
LogAcquire_NoWait(c) ==
  /\ pc[c] = "log"
  /\ log_lock' = c
  /\ pc' = [pc EXCEPT ![c] = "logging"]
  /\ UNCHANGED << backlog, peer, pending, buffer, keep_alive, loc, resp, site,
                  wire, received, consumed, log >>

\* log_activity: `with log_lock` acquires the lock
LogAcquire(c) ==
  /\ pc[c] = "log"
  /\ log_lock = 0
  /\ log_lock' = c
  /\ pc' = [pc EXCEPT ![c] = "logging"]
  /\ UNCHANGED << backlog, peer, pending, buffer, keep_alive, loc, resp, site,
                  wire, received, consumed, log >>

\* A parse-error branch that goes back to the top of the loop instead of
\* setting keep_alive = False and breaking
AfterLog_Continue(s) ==
  IF s = "ok" THEN "decide" ELSE IF s = "perr" THEN "read" ELSE "close"

\* Where the worker goes after its log call: the normal branch to its
\* keep-alive decision; the parse-error branch (keep_alive = False; break)
\* and the exception handler (break) out of the loop
AfterLog(s) == IF s = "ok" THEN "decide" ELSE "close"

\* A log write that returns without releasing the lock
LogWrite_NoRelease(c) ==
  /\ pc[c] = "logging"
  /\ log_lock = c
  /\ log' = Append(log, [client |-> c, line |-> LoggedLine(c),
                         status |-> resp[c].status, text |-> resp[c].text])
  /\ pc' = [pc EXCEPT ![c] = AfterLog(site[c])]
  /\ keep_alive' = [keep_alive EXCEPT ![c] =
                      IF site[c] = "perr" THEN AfterLog(site[c]) = "read" ELSE @]
  /\ UNCHANGED << backlog, peer, pending, buffer, loc, resp, site, wire,
                  received, consumed, log_lock >>

\* log_activity: write the line and release the lock, then go on as the
\* calling branch does
LogWrite(c) ==
  /\ pc[c] = "logging"
  /\ log_lock = c
  /\ log' = Append(log, [client |-> c, line |-> LoggedLine(c),
                         status |-> resp[c].status, text |-> resp[c].text])
  /\ log_lock' = 0
  /\ pc' = [pc EXCEPT ![c] = AfterLog(site[c])]
  /\ keep_alive' = [keep_alive EXCEPT ![c] =
                      IF site[c] = "perr" THEN AfterLog(site[c]) = "read" ELSE @]
  /\ UNCHANGED << backlog, peer, pending, buffer, loc, resp, site, wire,
                  received, consumed >>

\* The statuses after which handle_client never keeps the connection
FatalStatuses == {400, 500, 501, 505}

\* A decision that looks at the negotiation only
StaysAlive_IgnoresStatus(r) == ~r.conn_close

\* The keep-alive decision of handle_client
StaysAlive(r) == ~(r.conn_close \/ r.status \in FatalStatuses)

\* The end of one iteration: keep_alive = False when conn_close or the
\* status is fatal, and `while keep_alive` loops or ends
Decide(c) ==
  /\ pc[c] = "decide"
  /\ keep_alive' = [keep_alive EXCEPT ![c] = StaysAlive(resp[c])]
  /\ pc' = [pc EXCEPT ![c] = IF StaysAlive(resp[c]) THEN "read" ELSE "close"]
  /\ UNCHANGED << backlog, peer, pending, buffer, loc, resp, site, wire,
                  received, consumed, log, log_lock >>

\* conn.close()
Close(c) ==
  /\ pc[c] = "close"
  /\ pc' = [pc EXCEPT ![c] = "done"]
  /\ UNCHANGED << backlog, peer, pending, buffer, keep_alive, loc, resp, site,
                  wire, received, consumed, log, log_lock >>

\* The client closes its end: the worker reads what was sent, then b""
PeerClose(c) ==
  /\ pc[c] \notin {"new", "done"}
  /\ peer[c] = "open"
  /\ peer' = [peer EXCEPT ![c] = "closed"]
  /\ UNCHANGED << backlog, pc, pending, buffer, keep_alive, loc, resp, site,
                  wire, received, consumed, log, log_lock >>

\* The client resets the connection: unread bytes are dropped, and every
\* later recv and sendall of the worker raises
PeerReset(c) ==
  /\ pc[c] \notin {"new", "done"}
  /\ peer[c] # "reset"
  /\ peer' = [peer EXCEPT ![c] = "reset"]
  /\ pending' = [pending EXCEPT ![c] = << >>]
  /\ UNCHANGED << backlog, pc, buffer, keep_alive, loc, resp, site, wire,
                  received, consumed, log, log_lock >>

Next ==
  \E c \in Conns :
    \/ Accept(c)
    \/ RecvData(c)
    \/ RecvEof(c)
    \/ RecvReset(c)
    \/ Process(c)
    \/ Send(c)
    \/ Except(c)
    \/ LogAcquire(c)
    \/ LogWrite(c)
    \/ Decide(c)
    \/ Close(c)
    \/ PeerClose(c)
    \/ PeerReset(c)

Spec == Init /\ [][Next]_vars

\* Process(c) as the scheduler sees it: a worker with a complete request in
\* its buffer goes on to send.  Process(c) is the only step of Next that
\* takes a worker from "read" to "send", so this is the same step
ProcessScheduled(c) ==
  /\ pc[c] = "read"
  /\ FindTerminator(buffer[c]) # 0
  /\ pc' = [pc EXCEPT ![c] = "send"]

\* The steps of the worker thread of connection c other than Process(c)
WorkerIO(c) ==
  \/ RecvData(c) \/ RecvEof(c) \/ RecvReset(c) \/ Send(c) \/ Except(c)
  \/ LogAcquire(c) \/ LogWrite(c) \/ Decide(c) \/ Close(c)

\* The threads keep running: the accept loop accepts a waiting connection
\* and every worker that can take a step takes one.  Nothing is assumed
\* of the clients
Fairness ==
  \A c \in Conns :
    /\ WF_vars(Accept(c))
    /\ WF_vars(WorkerIO(c))
    /\ WF_pc(ProcessScheduled(c))

\* What each of two concurrent clients may send: a request answered 200 and
\* closed, one the parser refuses, a kept-alive request followed by one that
\* closes, and a request that is never finished
ConcScripts ==
  { Request(GET, << "/" >>, V10, << >>),
    Request(<< "POST" >>, << "/" >>, V11, << >>),
    Request(HEAD, << "/" >>, V11, << HostLine >>)
      \o Request(HEAD, << "/", "nofile" >>, V10, << >>),
    PartialRequest }

\* Two clients have connected, one on each connection
InitConc == \E s \in [Conns -> ConcScripts] : InitState(s)

\* start_server with two clients, each served by its own worker thread
SpecConc == InitConc /\ [][Next]_vars

\* The short scripts, and a request that keeps the connection alive with
\* nothing after it
LiveScripts ==
  ConcScripts \cup { Request(HEAD, << "/" >>, V11, << HostLine >>) }

\* One client, on connection 1, with one of the short scripts
InitLive ==
  \E s \in LiveScripts : InitState([c \in Conns |-> IF c = 1 THEN s ELSE << >>])

\* The server with its threads scheduled fairly
SpecLive == InitLive /\ [][Next]_vars /\ Fairness

\* What each of two concurrent clients may send when progress is checked: a
\* request answered and closed, one the parser refuses, and one that is
\* never finished, after which the client stalls
StallScripts ==
  { Request(GET, << "/" >>, V10, << >>),
    Request(<< "POST" >>, << "/" >>, V11, << >>),
    PartialRequest }

InitConcLive == \E s \in [Conns -> StallScripts] : InitState(s)

\* Two clients, the server's threads scheduled fairly
SpecConcLive == InitConcLive /\ [][Next]_vars /\ Fairness

\* ------------------------------------------------------------------------
\* Properties
\* ------------------------------------------------------------------------

\* The responses that reached the client: the sendall calls that succeeded
Responses(c) == SelectSeq(wire[c], LAMBDA w : w.ok)

\* The request a sendall answers, as parse_request reads it
RequestOf(c, w) == parse_request(consumed[c][w.req])

\* The value of the request's Connection header, compared without case
SentConnection(req, value) == Lower(Get(req.headers, << "Connection" >>)) = << value >>

\* The keep-alive negotiation of a parsed request
Negotiated(req) ==
  \/ req.version = V11 /\ ~SentConnection(req, "close")
  \/ req.version = V10 /\ SentConnection(req, "keep-alive")

LastOf(seq) == seq[Len(seq)]

\* The step that ends one iteration of a parsed, answered request
AfterResponse(c) == pc[c] = "decide" /\ pc'[c] # "decide"

\* C1: after a parsed request's response is written, the handler loops to
\* await another request exactly when keep-alive was negotiated (HTTP/1.1
\* without Connection: close, or HTTP/1.0 with Connection: keep-alive) and
\* the status written is not 400, 500, 501 or 505; otherwise it goes on to
\* close the socket, having written exactly one response for the request.
C1_KeepAliveDecision ==
  [][\A c \in Conns :
       AfterResponse(c) =>
         LET w   == LastOf(wire[c])
             req == RequestOf(c, w)
         IN  /\ w.ok /\ w.req = Len(consumed[c]) /\ req.err = ""
             /\ Cardinality({i \in 1..Len(wire[c]) : wire[c][i].req = w.req}) = 1
             /\ pc'[c] \in {"read", "close"}
             /\ wire'[c] = wire[c]
             /\ (pc'[c] = "read") <=>
                  (Negotiated(req) /\ w.status \notin {400, 500, 501, 505})
             /\ keep_alive'[c] = (pc'[c] = "read")]_vars

\* C1 witness: a 500 written for an HTTP/1.1 request without Connection:
\* close, after which the handler is closing
C1_Witness ==
  \E c \in Conns :
    /\ pc[c] = "close" /\ site[c] = "ok" /\ wire[c] # << >>
    /\ LastOf(wire[c]).ok /\ LastOf(wire[c]).status = 500
    /\ LastOf(wire[c]).req = Len(consumed[c])
    /\ RequestOf(c, LastOf(wire[c])).version = V11
    /\ Negotiated(RequestOf(c, LastOf(wire[c])))

\* The first consumed request that parse_request refuses, 0 when none
FirstRefused(c) ==
  LET I == {i \in 1..Len(consumed[c]) : parse_request(consumed[c][i]).err # ""}
  IN  IF I = {} THEN 0 ELSE SetMin(I)

\* C2: once parse_request has refused a header block the handler never reads
\* or slices again on that connection, whatever is left in the buffer; when
\* its sendall succeeds the one response written for the block has status
\* 400, 501 or 505 and Connection: close, it is logged with that status, and
\* the handler goes on to close.
C2_ParseFailureCloses ==
  \A c \in Conns :
    LET k == FirstRefused(c)
    IN  k # 0 =>
          /\ Len(consumed[c]) = k
          /\ pc[c] \in {"send", "except", "log", "logging", "close", "done"}
          /\ \A i \in 1..Len(wire[c]) :
               (wire[c][i].req = k /\ wire[c][i].ok) =>
                 /\ wire[c][i].status \in {400, 501, 505}
                 /\ wire[c][i].headers["Connection"] = << "close" >>
                 /\ i = Len(wire[c])
                 /\ \A j \in 1..Len(wire[c]) : wire[c][j].req = k => j = i
                 /\ pc[c] \in {"log", "logging", "close", "done"}
                 /\ pc[c] \in {"close", "done"} =>
                      /\ ~keep_alive[c]
                      /\ Cardinality({n \in 1..Len(log) :
                            log[n].client = c
                              /\ log[n].status = wire[c][i].status}) >= 1
                      /\ log[Len(log)].client = c
                      /\ log[Len(log)].status = wire[c][i].status

\* C2 witness: the second request of a connection kept alive was refused and
\* answered, the handler has closed, and a complete request is still in the
\* buffer
C2_Witness ==
  \E c \in Conns :
    /\ pc[c] = "done" /\ FirstRefused(c) = 2
    /\ Len(Responses(c)) = 2
    /\ FindTerminator(buffer[c]) # 0

\* The status the server owes a header block: the parser's error status, or
\* the status build_response gives the parsed request
StatusFor(request_bytes) ==
  LET req == parse_request(request_bytes)
  IN  IF req.err # "" THEN ErrorStatus(req.err)
      ELSE build_response(req.method, req.path, req.headers).status

\* The header blocks in the order given, each followed by its terminator
RECURSIVE Framed(_)
Framed(blocks) ==
  IF blocks = << >> THEN << >>
  ELSE Head(blocks) \o CRLF \o CRLF \o Framed(Tail(blocks))

\* C3: on one connection the i-th response written answers the i-th header
\* block received; every block sliced out while the handler awaits the next
\* one has its response on the wire already, so at most one block is ever
\* without its response, and no block has two.
C3_InOrder ==
  \A c \in Conns :
    LET R == Responses(c)
    IN  /\ \A i \in 1..Len(R) :
             /\ R[i].req = i
             /\ R[i].status = StatusFor(consumed[c][i])
        /\ Len(R) <= Len(consumed[c])
        /\ Len(consumed[c]) <= Len(R) + 1
        /\ pc[c] = "read" => Len(R) = Len(consumed[c])
        /\ StartsWith(received[c], Framed(consumed[c]))

\* C3 witness: three pipelined requests answered on one connection
C3_Witness ==
  \E c \in Conns :
    /\ Len(Responses(c)) = 3
    /\ Len(consumed[c]) = 3
    /\ Responses(c)[1].status # Responses(c)[3].status

\* C4: the bytes received are the consumed header blocks, each with its
\* terminator, followed by the buffer; a slice takes one block (the bytes up
\* to the first terminator) and its terminator off the front of the buffer
\* and keeps the rest; recv is called only when the buffer holds no complete
\* header block.
C4_BufferCarryOver ==
  /\ [](\A c \in Conns :
          /\ received[c] = Framed(consumed[c]) \o buffer[c]
          /\ \A i \in 1..Len(consumed[c]) :
               FindTerminator(consumed[c][i] \o CRLF \o CRLF)
                 = Len(consumed[c][i]) + 1)
  /\ [][\A c \in Conns :
          /\ received'[c] # received[c] => FindTerminator(buffer[c]) = 0
          /\ consumed'[c] # consumed[c] =>
               /\ received'[c] = received[c]
               /\ Len(consumed'[c]) = Len(consumed[c]) + 1
               /\ buffer[c] = LastOf(consumed'[c]) \o CRLF \o CRLF \o buffer'[c]]_vars

\* C4 witness: a request was sliced out, the buffer already holds the next
\* complete header block and bytes after it, and more are still unread
C4_Witness ==
  \E c \in Conns :
    /\ pc[c] = "read"
    /\ Len(consumed[c]) = 1
    /\ FindTerminator(buffer[c]) # 0
    /\ AfterSlice(buffer[c]) # << >>
    /\ pending[c] # << >>

\* The successful sendall calls of a connection that answer a request
\* parse_request accepted
Answered(c) ==
  {i \in 1..Len(wire[c]) :
     wire[c][i].ok /\ wire[c][i].req >= 1 /\ RequestOf(c, wire[c][i]).err = ""}

\* The path has an extension the MIME table maps
Mapped(p) == Len(Extension(p)) = 1 /\ MimeTable(Extension(p)[1]) # "None"

\* A regular file is at the path and stays there while it is served
ExistingFile(p) == exists(p) /\ FileAt(p).kind = "file" /\ FileAt(p).statok

\* What the server sends for the same request made with GET
AsGet(req) == SuccessResponse([req EXCEPT !.method = GET])

\* The promise of C5 for one response to a request for file f
ServedInFull(w, req, f) ==
  /\ w.status = 200
  /\ w.headers["Content-Length"] = Len(f.content)
  /\ req.method = GET => w.body = f.content
  /\ req.method = HEAD =>
       /\ w.body = << >>
       /\ w.status = AsGet(req).status
       /\ w.headers = AsGet(req).headers

\* C5 as claimed: every existing file with a mapped extension, absent a 304,
\* is answered 200 with its length and content, and HEAD as GET without body.
C5_Original ==
  \A c \in Conns : \A i \in Answered(c) :
    LET w   == wire[c][i]
        req == RequestOf(c, w)
        p   == Resolve(req.path)
    IN  (ExistingFile(p) /\ Mapped(p) /\ w.status # 304) =>
          ServedInFull(w, req, FileAt(p))

\* C5 as amended: every existing, readable file with a mapped extension,
\* absent a 304, is answered 200 with Content-Length equal to the file's
\* length; GET carries the content, HEAD the same status and headers and an
\* empty body.
C5_ReadableFileServed ==
  \A c \in Conns : \A i \in Answered(c) :
    LET w   == wire[c][i]
        req == RequestOf(c, w)
        p   == Resolve(req.path)
    IN  (ExistingFile(p) /\ FileAt(p).readable /\ Mapped(p) /\ w.status # 304) =>
          ServedInFull(w, req, FileAt(p))

\* C5 witness: a HEAD request for index.html answered with the length of the
\* file and no body
C5_Witness ==
  \E c \in Conns : \E i \in Answered(c) :
    /\ RequestOf(c, wire[c][i]).method = HEAD
    /\ Resolve(RequestOf(c, wire[c][i]).path) = Cwd \o << "/", "index", ".", "html" >>
    /\ wire[c][i].status = 200
    /\ wire[c][i].headers["Content-Length"] = 5
    /\ wire[c][i].body = << >>

\* The request line of a header block is well formed for the parser up to
\* its path check: three tokens, a supported version and method, a target
\* that starts with "/"
WellFormedLine(request_bytes) ==
  LET parts == SplitWs(SplitCRLF(request_bytes)[1])
  IN  /\ Len(parts) = 3
      /\ parts[3] \in {V10, V11}
      /\ Upper(parts[1]) \in {GET, HEAD}
      /\ StartsWith(parts[2], << "/" >>)

\* The percent-decoded path of a well-formed request line, query removed
DecodedPath(request_bytes) ==
  LET target == SplitWs(SplitCRLF(request_bytes)[1])[2]
      q      == IndexOf(target, "?")
  IN  unquote(IF q = 0 THEN target ELSE Take(target, q - 1))

\* The path has a ".." segment
HasDotDot(path) ==
  \E i \in 1..Len(SplitSlash(path)) : SplitSlash(path)[i] = << ".", "." >>

\* C6 as claimed: a request whose decoded path has a ".." segment is answered
\* 403 Forbidden.
C6_DotDotForbidden ==
  \A c \in Conns : \A i \in 1..Len(wire[c]) :
    LET w == wire[c][i]
    IN  (/\ w.ok /\ w.req >= 1
         /\ WellFormedLine(consumed[c][w.req])
         /\ HasDotDot(DecodedPath(consumed[c][w.req]))) =>
          w.status = 403

\* The path is the working directory or lies in the tree under it
InTree(p) == p = Cwd \/ StartsWith(p, Cwd \o << "/" >>)

\* C7 as claimed: a request that resolves outside the tree under the document
\* root is rejected, so every response that serves a file or its metadata is
\* for a path in that tree.
C7_RootConfinement ==
  \A c \in Conns : \A i \in 1..Len(wire[c]) :
    LET w == wire[c][i]
    IN  (/\ w.ok /\ w.req >= 1
         /\ WellFormedLine(consumed[c][w.req])
         /\ ~InTree(abspath(Cwd \o DecodedPath(consumed[c][w.req])))) =>
          /\ w.status \in {400, 403}
          /\ "Last-Modified" \notin DOMAIN w.headers

\* The whole second of a file's modification time: its Last-Modified
LastModified(f) == f.mtime2 \div 2

\* C8 as claimed: a served resource is answered 304 whenever the request's
\* If-Modified-Since date is at or after the resource's Last-Modified, and
\* 200 when the resource is newer than the date.
C8_NotModifiedAtOrAfter ==
  \A c \in Conns : \A i \in Answered(c) :
    LET w   == wire[c][i]
        req == RequestOf(c, w)
        p   == Resolve(req.path)
        ims == ParseDate(Get(req.headers, << "If-Modified-Since" >>))
    IN  (ExistingFile(p) /\ FileAt(p).readable /\ Mapped(p) /\ ims >= 0) =>
          /\ ims >= LastModified(FileAt(p)) => w.status = 304
          /\ ims < LastModified(FileAt(p)) => w.status = 200

\* C9: every 304 the server sends has no body, no Content-Type header,
\* Content-Length 0, a Date header and a Connection header.
C9_NotModifiedShape ==
  \A c \in Conns : \A i \in 1..Len(wire[c]) :
    LET w == wire[c][i]
    IN  w.status = 304 =>
          /\ w.body = << >>
          /\ "Content-Type" \notin DOMAIN w.headers
          /\ w.headers["Content-Length"] = 0
          /\ "Date" \in DOMAIN w.headers
          /\ "Connection" \in DOMAIN w.headers
          /\ w.headers["Connection"] \in {<< "close" >>, << "keep-alive" >>}

\* C9 witness: a 304 written in answer to a GET request
C9_Witness ==
  \E c \in Conns : \E i \in Answered(c) :
    /\ wire[c][i].status = 304
    /\ RequestOf(c, wire[c][i]).method = GET

\* C10: an existing, readable file whose extension the MIME table does not
\* map is answered 415 with the type of the error page, and no part of the
\* file's content is in what is sent.
C10_UnmappedRefused ==
  \A c \in Conns : \A i \in Answered(c) :
    LET w   == wire[c][i]
        req == RequestOf(c, w)
        p   == Resolve(req.path)
    IN  (ExistingFile(p) /\ FileAt(p).readable /\ ~Mapped(p)) =>
          /\ w.status = 415
          /\ w.headers["Content-Type"] = << "text/html" >>
          /\ "Last-Modified" \notin DOMAIN w.headers
          /\ \A j \in 1..Len(w.body) : ~Contains(FileAt(p).content, w.body[j])

\* C10 witness: a GET request for data.xyz answered 415 with the error page
C10_Witness ==
  \E c \in Conns : \E i \in Answered(c) :
    /\ RequestOf(c, wire[c][i]).method = GET
    /\ Resolve(RequestOf(c, wire[c][i]).path) = Cwd \o << "/", "data", ".", "xyz" >>
    /\ wire[c][i].status = 415
    /\ wire[c][i].body = HtmlBody(415, "Unsupported Media Type")

\* The request line of a header block has exactly three tokens, a supported
\* version and a method that is neither GET nor HEAD in any letter case
UnsupportedMethodLine(request_bytes) ==
  LET parts == SplitWs(SplitCRLF(request_bytes)[1])
  IN  /\ Len(parts) = 3
      /\ parts[3] \in {V10, V11}
      /\ Upper(parts[1]) \notin {GET, HEAD}

HeaderLines(request_bytes) ==
  LET lines == Tail(SplitCRLF(request_bytes))
      E     == {i \in 1..Len(lines) : lines[i] = << >>}
  IN  IF E = {} THEN lines ELSE Take(lines, SetMin(E) - 1)

\* A header line of the block names the field, in any letter case
HasField(request_bytes, name) ==
  \E i \in 1..Len(HeaderLines(request_bytes)) :
    LET line == HeaderLines(request_bytes)[i]
        k    == IndexOf(line, ":")
    IN  k # 0 /\ Lower(Strip(Take(line, k - 1))) = << name >>

\* The version token of a three-token request line, << >> otherwise
VersionOf(request_bytes) ==
  LET parts == SplitWs(SplitCRLF(request_bytes)[1])
  IN  IF Len(parts) = 3 THEN parts[3] ELSE << >>

\* C12 as claimed: no HTTP/1.1 request without a Host header is answered
\* 200, 304, 403, 404 or 415; when its request line is otherwise acceptable
\* (method, target and version pass the parser) it is answered 400 Bad
\* Request with Connection: close and is the last request the handler
\* consumes on the connection.
C12_HostRequired ==
  \A c \in Conns :
    \A j \in 1..Len(wire[c]) :
      LET w == wire[c][j] IN
      (w.ok /\ w.req >= 1
         /\ VersionOf(consumed[c][w.req]) = V11
         /\ ~HasField(consumed[c][w.req], "host")) =>
        /\ w.status \notin {200, 304, 403, 404, 415}
        /\ WellFormedLine(consumed[c][w.req]) =>
             /\ w.status = 400
             /\ w.headers["Connection"] = << "close" >>
             /\ Len(consumed[c]) = w.req

\* C13 as claimed: every response written carries a Connection header; when
\* the handler, having written and logged a response, goes on to close the
\* socket that header is close, and when it goes back to await another
\* request that header is keep-alive.
C13_ConnectionHeaderAgrees ==
  /\ [](\A c \in Conns :
          \A j \in 1..Len(wire[c]) : "Connection" \in DOMAIN wire[c][j].headers)
  /\ [][\A c \in Conns :
          (pc[c] \in {"decide", "logging"} /\ pc'[c] \in {"read", "close"}
             /\ LastOf(wire[c]).ok) =>
            LastOf(wire[c]).headers["Connection"] =
              IF pc'[c] = "read" THEN << "keep-alive" >> ELSE << "close" >>]_vars

\* The workers between acquiring and releasing log_lock
InLog == {c \in Conns : pc[c] = "logging"}

\* C14: at most one worker is between acquiring and releasing the log lock,
\* and it is the one the lock records; the log changes only in a step of the
\* worker holding the lock, which appends exactly one complete line (client,
\* request line, status, reason) and releases the lock in that same step, so
\* a line of one connection is never split by a line of another.
C14_LogMutualExclusion ==
  /\ [](/\ Cardinality(InLog) <= 1
        /\ \A c \in Conns : log_lock = c <=> c \in InLog
        /\ log_lock = 0 <=> InLog = {})
  /\ [][log' # log =>
          \E c \in Conns :
            /\ InLog = {c} /\ log_lock = c
            /\ Len(log') = Len(log) + 1
            /\ Take(log', Len(log)) = log
            /\ LastOf(log').client = c
            /\ LastOf(log').status = resp[c].status
            /\ log_lock' = 0
            /\ c \notin InLog']_vars

\* C14 witness: one worker holds the log lock while the other has written
\* its response and waits for the lock, and a line is already in the log
C14_Witness ==
  /\ pc[1] = "logging" /\ pc[2] = "log"
  /\ log_lock = 1
  /\ Len(log) >= 1

\* The request line of a header block as the client sent it
OriginalLine(request_bytes) == SplitCRLF(request_bytes)[1]

\* C15 as claimed: each logger call that follows a written response passes
\* the connection's client, the original request line of the header block
\* the response answers (when it has one), and the status written, on the
\* parse-error and 500 paths as on the normal one, for the first request of
\* a connection as for later ones.
C15_LogsOriginalLine ==
  [][\A c \in Conns :
       (pc[c] = "logging" /\ pc'[c] # "logging" /\ LastOf(wire[c]).ok
          /\ LastOf(wire[c]).req >= 1
          /\ OriginalLine(consumed[c][LastOf(wire[c]).req]) # << >>) =>
         /\ Len(log') = Len(log) + 1
         /\ LastOf(log').client = c
         /\ LastOf(log').status = LastOf(wire[c]).status
         /\ LastOf(log').line = OriginalLine(consumed[c][LastOf(wire[c]).req])]_vars

\* A persistent connection whose peer is idle: a response has been written
\* and the connection kept, the peer has not closed or reset, and the worker
\* has read everything the peer sent without finding a complete request
Idle(c) ==
  /\ pc[c] = "read" /\ peer[c] = "open"
  /\ Len(Responses(c)) >= 1
  /\ pending[c] = << >> /\ FindTerminator(buffer[c]) = 0

\* C16 as claimed: a worker waiting in a read on a persistent connection
\* whose peer is idle eventually leaves the read (a read timeout) and the
\* connection is closed.
C16_IdleEventuallyClosed ==
  \A c \in Conns : Idle(c) ~> pc[c] = "done"

\* C17 as claimed: a sendall that failed is the last write attempt on its
\* connection: no sendall follows it, neither of the same response nor of
\* another, and the handler then only closes.
C17_NoWriteAfterFailure ==
  \A c \in Conns :
    \A j \in 1..Len(wire[c]) :
      ~wire[c][j].ok =>
        /\ j = Len(wire[c])
        /\ pc[c] \in {"except", "log", "logging", "close", "done"}

\* The status codes the server writes, each with its reason phrase
StatusLines ==
  { << 200, "OK" >>, << 304, "Not Modified" >>, << 400, "Bad Request" >>,
    << 404, "Not Found" >>, << 415, "Unsupported Media Type" >>,
    << 500, "Internal Server Error" >>, << 501, "Not Implemented" >>,
    << 505, "HTTP Version Not Supported" >> }

\* A write is a well-formed response: a status line with a known version,
\* code and phrase, the Date, Content-Length and Connection headers, and a
\* body, when there is one, of the declared length and with a type
WellFormed(w) ==
  /\ w.version \in {V10, V11}
  /\ << w.status, w.text >> \in StatusLines
  /\ {"Date", "Content-Length", "Connection"} \subseteq DOMAIN w.headers
  /\ w.headers["Connection"] \in { << "close" >>, << "keep-alive" >> }
  /\ w.body # << >> =>
       /\ w.headers["Content-Length"] = Len(w.body)
       /\ "Content-Type" \in DOMAIN w.headers

\* The header block asks for a regular file of a mapped type whose stat
\* fails, or which GET cannot open (and no conditional answer comes first)
FailsIO(request_bytes) ==
  LET req == parse_request(request_bytes)
      p   == Resolve(req.path)
  IN  /\ req.err = ""
      /\ exists(p) /\ ~isdir(p) /\ Mapped(p)
      /\ \/ ~FileAt(p).statok
         \/ /\ req.method = GET /\ ~FileAt(p).readable
            /\ ~NotModified(FileAt(p).mtime2, req.headers)

\* C18: every write the handler attempts is a well-formed response; a
\* request that parse_request refuses is answered 400, 501 or 505; a request
\* whose file cannot be stat'ed or read is answered 500, is the last one
\* consumed on its connection, and the handler goes on to close; a worker
\* has ended only after a write was attempted for every request it consumed,
\* and a worker that ended in the exception handler attempted a 500 response
\* as its last write.
C18_FailuresAnswered ==
  \A c \in Conns :
    /\ \A j \in 1..Len(wire[c]) :
         LET w == wire[c][j] IN
         /\ WellFormed(w)
         /\ (w.ok /\ w.req >= 1 /\ parse_request(consumed[c][w.req]).err # "") =>
              w.status \in {400, 501, 505}
         /\ (w.ok /\ w.req >= 1 /\ FailsIO(consumed[c][w.req])) =>
              /\ w.status = 500
              /\ Len(consumed[c]) = w.req
              /\ pc[c] \in {"log", "logging", "decide", "close", "done"}
              /\ pc[c] \in {"close", "done"} => ~keep_alive[c]
    /\ pc[c] \in {"close", "done"} =>
         \A i \in 1..Len(consumed[c]) :
           \E j \in 1..Len(wire[c]) : wire[c][j].req = i
    /\ (site[c] = "exc" /\ pc[c] \in {"log", "logging", "close", "done"}) =>
         /\ Len(wire[c]) >= 1
         /\ LastOf(wire[c]).status = 500
         /\ LastOf(wire[c]).headers["Connection"] = << "close" >>

\* C18 witness: a request that negotiated keep-alive asked for a file whose
\* stat fails, was answered 500, and the connection is closed
C18_Witness ==
  \E c \in Conns :
    /\ pc[c] = "done"
    /\ Len(consumed[c]) = 1 /\ Len(Responses(c)) = 1
    /\ FailsIO(consumed[c][1])
    /\ ~FileAt(Resolve(parse_request(consumed[c][1]).path)).statok
    /\ Negotiated(parse_request(consumed[c][1]))
    /\ Responses(c)[1].status = 500

\* The directory a parsed request's path names, as os.path.abspath gives it
TargetOf(req) == abspath(Cwd \o req.path)

\* The fixed index resource of a directory
IndexFile(d) == d \o << "/", "index", ".", "html" >>

\* C19 as claimed: a request whose target is a directory in the tree under
\* the root is answered with that directory's index.html when it exists (200
\* with the file's length, and its content for GET) and with 403 Forbidden
\* when it does not.
C19_DirectoryIndex ==
  \A c \in Conns :
    \A j \in Answered(c) :
      LET w   == wire[c][j]
          req == RequestOf(c, w)
          d   == TargetOf(req)
      IN  (isdir(d) /\ InTree(d)) =>
            IF exists(IndexFile(d))
            THEN /\ w.status = 200
                 /\ w.headers["Content-Length"] = Len(FileAt(IndexFile(d)).content)
                 /\ req.method = GET => w.body = FileAt(IndexFile(d)).content
            ELSE w.status = 403

\* The worker of a connection is blocked in a socket read: the peer is open
\* and has nothing more for it
Blocked(c) ==
  /\ pc[c] = "read" /\ peer[c] = "open"
  /\ pending[c] = << >> /\ FindTerminator(buffer[c]) = 0

\* C20: the workers started are exactly the connections accepted, one each,
\* and in every state every connection waiting in the listen queue can be
\* accepted, whatever the workers of the other connections are doing.
C20_AcceptNeverBlocked ==
  /\ {c \in Conns : pc[c] # "new"} = Conns \ backlog
  /\ \A c \in backlog : ENABLED Accept(c)

\* C20 witness: the worker of connection 1 is blocked in a read on an idle
\* peer while connection 2 waits in the listen queue
C20_Witness ==
  /\ 2 \in backlog
  /\ Blocked(1)
  /\ received[1] # << >>

\* The write answers a HEAD request that parse_request accepted
ForHead(c, w) ==
  w.req >= 1 /\ RequestOf(c, w).err = "" /\ RequestOf(c, w).method = HEAD

\* The Content-Length of a write is the number of body bytes written
LengthOfBody(w) == w.headers["Content-Length"] = Len(w.body)

\* The 304 exception: no body, Content-Length 0
EmptyNotModified(w) ==
  w.status = 304 /\ w.body = << >> /\ w.headers["Content-Length"] = 0

\* C21 as claimed: a 304 written has no body and Content-Length 0; a
\* response written to HEAD has no body and the length of the body the same
\* request would get with GET; every other response written has
\* Content-Length equal to the body bytes written.
C21_Original ==
  \A c \in Conns : \A j \in 1..Len(wire[c]) :
    LET w == wire[c][j]
    IN  w.ok =>
          IF w.status = 304 THEN EmptyNotModified(w)
          ELSE IF ForHead(c, w)
          THEN /\ w.body = << >>
               /\ w.headers["Content-Length"] = Len(AsGet(RequestOf(c, w)).body)
          ELSE LengthOfBody(w)

\* C21 as amended: a 304 written has no body and Content-Length 0; a
\* response written to HEAD has no body and carries, for 200, the size of
\* the file and, for an error status, the length of that status's HTML
\* page, which is the length of the body GET would get whenever the file is
\* readable or the answer is an error; every other response written has
\* Content-Length equal to the body bytes written.
C21_ContentLengthFraming ==
  \A c \in Conns : \A j \in 1..Len(wire[c]) :
    LET w == wire[c][j]
    IN  w.ok =>
          IF w.status = 304 THEN EmptyNotModified(w)
          ELSE IF ForHead(c, w)
          THEN /\ w.body = << >>
               /\ LET p == Resolve(RequestOf(c, w).path)
                  IN  IF w.status = 200
                      THEN /\ w.headers["Content-Length"] = Len(FileAt(p).content)
                           /\ FileAt(p).readable =>
                                w.headers["Content-Length"]
                                  = Len(AsGet(RequestOf(c, w)).body)
                      ELSE /\ w.headers["Content-Length"]
                                = Len(HtmlBody(w.status, w.text))
                           /\ w.headers["Content-Length"]
                                = Len(AsGet(RequestOf(c, w)).body)
          ELSE LengthOfBody(w)

\* C21 witness: on a kept connection a GET answered 200 with a body of the
\* declared length is followed by a HEAD answered with no body and a
\* non-zero Content-Length
C21_Witness ==
  \E c \in Conns :
    /\ Len(Responses(c)) = 2
    /\ Responses(c)[1].status = 200 /\ Responses(c)[1].body # << >>
    /\ LengthOfBody(Responses(c)[1])
    /\ ForHead(c, Responses(c)[2])
    /\ Responses(c)[2].body = << >>
    /\ Responses(c)[2].headers["Content-Length"] > 0

\* The state handle_client keeps for one connection, and what it has read
\* from and written to that connection
ConnState(c) ==
  << pc[c], buffer[c], keep_alive[c], loc[c], resp[c], site[c], wire[c],
     received[c], consumed[c] >>

\* The response a header block gets when it is the only thing the server
\* ever sees: the parser's error response, or the response built for the
\* parsed request
Alone(request_bytes) ==
  LET req == parse_request(request_bytes)
  IN  IF req.err # "" THEN ParseErrorResponse(req.err) ELSE SuccessResponse(req)

\* C22: a step changes the handler state of at most one connection (its
\* buffer and keep_alive with the rest), so no worker writes another's; the
\* bytes a worker has received are the header blocks it consumed followed by
\* its own buffer; and each response written on a connection has the
\* status, reason, headers other than Date, and body that its own header
\* block gets alone, whatever has happened on the other connection.
C22_NoSharedConnectionState ==
  /\ [](\A c \in Conns :
          /\ received[c] = Framed(consumed[c]) \o buffer[c]
          /\ \A i \in 1..Len(Responses(c)) :
               LET w == Responses(c)[i]
                   a == Alone(consumed[c][i])
               IN  /\ w.req = i
                   /\ w.status = a.status /\ w.text = a.text
                   /\ w.body = a.body
                   /\ PopHeader(w.headers, "Date") = PopHeader(a.headers, "Date"))
  /\ [][\A c, d \in Conns :
          (c # d /\ ConnState(c)' # ConnState(c)) => ConnState(d)' = ConnState(d)]_vars

\* C22 witness: the two connections were served interleaved: connection 1
\* got two responses, connection 2 one of another status, and the log has
\* connection 2's line between the two of connection 1
C22_Witness ==
  /\ Len(Responses(1)) = 2 /\ Len(Responses(2)) = 1
  /\ Responses(2)[1].status \notin {Responses(1)[1].status, Responses(1)[2].status}
  /\ Len(log) = 3
  /\ log[1].client = 1 /\ log[2].client = 2 /\ log[3].client = 1

\* The parsed request carries an If-Modified-Since value that is no date
UnparsableSince(req) ==
  /\ << "If-Modified-Since" >> \in DOMAIN req.headers
  /\ req.headers[<< "If-Modified-Since" >>] # << >>
  /\ ParseDate(req.headers[<< "If-Modified-Since" >>]) < 0

\* The same request without its If-Modified-Since header
WithoutSince(req) ==
  [req EXCEPT !.headers = [k \in DOMAIN @ \ { << "If-Modified-Since" >> } |-> @[k]]]

\* C23: a request whose If-Modified-Since value does not parse as a date is
\* answered with the status, headers and body of the same request without
\* that header: never 304, and 200 with the file's content for GET of an
\* existing, readable file of a mapped type.
C23_UnparsableDateIgnored ==
  \A c \in Conns : \A j \in Answered(c) :
    LET w   == wire[c][j]
        req == RequestOf(c, w)
        p   == Resolve(req.path)
        a   == SuccessResponse(WithoutSince(req))
    IN  UnparsableSince(req) =>
          /\ w.status = a.status /\ w.text = a.text
          /\ w.headers = a.headers /\ w.body = a.body
          /\ w.status # 304
          /\ (ExistingFile(p) /\ FileAt(p).readable /\ Mapped(p)) =>
               /\ w.status = 200
               /\ req.method = GET => w.body = FileAt(p).content

\* C23 witness: GET /frac.html with If-Modified-Since: yesterday was answered
\* 200 with the file's content
C23_Witness ==
  \E c \in Conns : \E j \in Answered(c) :
    /\ UnparsableSince(RequestOf(c, wire[c][j]))
    /\ RequestOf(c, wire[c][j]).method = GET
    /\ Resolve(RequestOf(c, wire[c][j]).path) = Cwd \o << "/", "frac", ".", "html" >>
    /\ wire[c][j].status = 200
    /\ wire[c][j].body = << "f", "r" >>

\* The percent-encoded forms of a dot
EncodedDots == {"%2e", "%2E"}

\* The header block with every percent-encoded dot written as a literal dot
LiteralDots(request_bytes) ==
  [i \in 1..Len(request_bytes) |->
     IF request_bytes[i] \in EncodedDots THEN "." ELSE request_bytes[i]]

\* C24: a request whose target has percent-encoded dots is answered with the
\* status the same request gets with literal dots; in particular it is
\* refused whenever the literal form is refused, and when it is parsed its
\* path is the literal form's path.
C24_EncodedDotsAsLiteral ==
  \A c \in Conns : \A j \in 1..Len(wire[c]) :
    LET w == wire[c][j]
    IN  (w.ok /\ w.req >= 1
           /\ \E i \in 1..Len(consumed[c][w.req]) :
                consumed[c][w.req][i] \in EncodedDots) =>
          LET enc == consumed[c][w.req]
              lit == LiteralDots(enc)
          IN  /\ w.status = StatusFor(lit)
              /\ parse_request(enc).err = parse_request(lit).err
              /\ parse_request(enc).path = parse_request(lit).path

\* C24 witness: a target with encoded dot segments that leaves the working
\* directory was refused with the status of its literal form
C24_Witness ==
  \E c \in Conns :
    /\ Len(Responses(c)) = 1 /\ Len(consumed[c]) = 1
    /\ \E i \in 1..Len(consumed[c][1]) : consumed[c][1][i] \in EncodedDots
    /\ parse_request(LiteralDots(consumed[c][1])).err # ""
    /\ Responses(c)[1].status = 400

\* The error statuses of the decision table
ErrorStatuses == {400, 403, 404, 415, 500, 501, 505}

\* The body written is an HTML page that names the status code and the
\* reason phrase of the response it belongs to
NamesStatus(w) ==
  /\ w.body # << >>
  /\ Contains(w.body, CodeStr(w.status))
  /\ Contains(w.body, w.text)
  /\ << w.status, w.text >> \in StatusLines
  /\ w.headers["Content-Type"] = << "text/html" >>

\* C25 as claimed: every response written with an error status carries on
\* the wire an HTML body naming its status code and reason phrase.
C25_Original ==
  \A c \in Conns : \A j \in 1..Len(wire[c]) :
    (wire[c][j].ok /\ wire[c][j].status \in ErrorStatuses) =>
      NamesStatus(wire[c][j])

\* C25 as amended: every response written with an error status carries on
\* the wire an HTML body naming its status code and reason phrase, except
\* the response to a parsed HEAD request, which carries no body and the
\* Content-Length and Content-Type of that page.
C25_ErrorBodies ==
  \A c \in Conns : \A j \in 1..Len(wire[c]) :
    LET w == wire[c][j]
    IN  (w.ok /\ w.status \in ErrorStatuses) =>
          IF ForHead(c, w)
          THEN /\ w.body = << >>
               /\ << w.status, w.text >> \in StatusLines
               /\ w.headers["Content-Length"] = Len(HtmlBody(w.status, w.text))
               /\ w.headers["Content-Type"] = << "text/html" >>
          ELSE NamesStatus(w)

\* C25 witness: a GET for a file of an unmapped type was answered 415 with
\* the page naming 415 Unsupported Media Type
C25_Witness ==
  \E c \in Conns : \E j \in 1..Len(wire[c]) :
    /\ wire[c][j].ok /\ wire[c][j].status = 415
    /\ ~ForHead(c, wire[c][j])
    /\ Contains(wire[c][j].body, "415")
    /\ Contains(wire[c][j].body, "Unsupported Media Type")

\* The number of log lines written for a connection
LogCount(c) == Cardinality({n \in 1..Len(log) : log[n].client = c})

\* C26: a zero-byte read happens only while the buffer holds no complete
\* header block, and the step that takes it leaves the loop with keep_alive
\* False, no write and no log call; unless the peer reset the connection,
\* writes are attempted only for consumed header blocks (one each at most)
\* and log calls only after a write, so the incomplete bytes get neither;
\* once out of the loop the handler only closes the socket, and a closed
\* connection never changes again: no read, no write, no log line; and every
\* handler that has left the loop, or has written an error response,
\* eventually closes its socket.
C26_ZeroReadCloses ==
  /\ [](\A c \in Conns :
          /\ peer[c] # "reset" => Len(wire[c]) <= Len(consumed[c])
          /\ LogCount(c) <= Len(wire[c])
          /\ \A j \in 1..Len(wire[c]) : wire[c][j].req <= Len(consumed[c]))
  /\ [][\A c \in Conns :
          /\ (pc[c] = "read" /\ pc'[c] = "close") =>
               /\ FindTerminator(buffer[c]) = 0
               /\ peer[c] = "closed"
               /\ ~keep_alive'[c]
               /\ wire'[c] = wire[c] /\ log' = log
               /\ buffer'[c] = buffer[c] /\ consumed'[c] = consumed[c]
          /\ pc[c] \in {"close", "done"} =>
               /\ pc'[c] \in {pc[c], "done"}
               /\ wire'[c] = wire[c] /\ received'[c] = received[c]
               /\ buffer'[c] = buffer[c] /\ consumed'[c] = consumed[c]
               /\ LogCount(c)' = LogCount(c)]_vars
  /\ \A c \in Conns :
       (pc[c] = "close" \/ (pc[c] = "log" /\ site[c] # "ok")) ~> pc[c] = "done"

\* C26 witness: the peer closed after an incomplete request line; the socket
\* is closed and nothing was written or logged
C26_Witness ==
  \E c \in Conns :
    /\ pc[c] = "done" /\ peer[c] = "closed"
    /\ buffer[c] # << >> /\ FindTerminator(buffer[c]) = 0
    /\ wire[c] = << >> /\ log = << >>

\* The header lines of a block that have a colon
ColonLines(request_bytes) ==
  SelectSeq(HeaderLines(request_bytes), LAMBDA line : IndexOf(line, ":") # 0)

\* The value of the last line of a block whose name, without surrounding
\* blanks, is exactly the one given; << >> when there is none
LastValue(request_bytes, name) ==
  LET L == ColonLines(request_bytes)
      I == {i \in 1..Len(L) : Strip(Take(L[i], IndexOf(L[i], ":") - 1)) = << name >>}
  IN  IF I = {} THEN << >>
      ELSE Strip(Drop(L[SetMax(I)], IndexOf(L[SetMax(I)], ":") + 1))

\* The block without its header lines that have no colon
WithoutColonless(request_bytes) ==
  LET lines == SplitCRLF(request_bytes)
      kept  == << lines[1] >> \o ColonLines(request_bytes)
  IN  Take(JoinLines(kept), Len(JoinLines(kept)) - 2)

\* A name occurs on more than one header line of the block
Repeated(request_bytes, name) ==
  LET L == ColonLines(request_bytes)
  IN  Cardinality({i \in 1..Len(L) :
        Strip(Take(L[i], IndexOf(L[i], ":") - 1)) = << name >>}) > 1

\* C27: for every parsed request answered, the Connection header of the
\* response follows the value of the last Connection line of the block, the
\* answer is 304 for an existing file of a mapped type exactly when the
\* value of the last If-Modified-Since line is a date not before the file's
\* modification time, and the response is the one the block gets without its
\* colon-less header lines.
C27_LastOccurrenceWins ==
  \A c \in Conns : \A j \in Answered(c) :
    LET w     == wire[c][j]
        block == consumed[c][w.req]
        req   == RequestOf(c, w)
        conn  == Lower(LastValue(block, "Connection"))
        since == LastValue(block, "If-Modified-Since")
        p     == Resolve(req.path)
        a     == Alone(WithoutColonless(block))
    IN  /\ w.headers["Connection"] =
             IF req.version = V11
             THEN (IF conn = << "close" >> THEN << "close" >> ELSE << "keep-alive" >>)
             ELSE (IF conn = << "keep-alive" >> THEN << "keep-alive" >> ELSE << "close" >>)
        /\ (ExistingFile(p) /\ Mapped(p)) =>
             (w.status = 304 <=>
                (ParseDate(since) >= 0 /\ FileAt(p).mtime2 <= 2 * ParseDate(since)))
        /\ w.status = a.status /\ w.headers = a.headers /\ w.body = a.body

\* C27 witness: a block with two If-Modified-Since lines and a colon-less
\* line between them, the first a date after the file's modification time
\* and the last one before it, was answered 200
C27_Witness ==
  \E c \in Conns : \E j \in Answered(c) :
    LET block == consumed[c][wire[c][j].req]
    IN  /\ Repeated(block, "If-Modified-Since")
        /\ Len(ColonLines(block)) < Len(HeaderLines(block))
        /\ wire[c][j].status = 200
        /\ wire[c][j].body # << >>

\* The value of the last line of a block whose name, without surrounding
\* blanks and in lower case, is the one given; << >> when there is none
LastValueAnyCase(request_bytes, name) ==
  LET L == ColonLines(request_bytes)
      I == {i \in 1..Len(L) :
              Lower(Strip(Take(L[i], IndexOf(L[i], ":") - 1))) = << name >>}
  IN  IF I = {} THEN << >>
      ELSE Strip(Drop(L[SetMax(I)], IndexOf(L[SetMax(I)], ":") + 1))

\* C28 as claimed: the keep-alive decision and the 304 decision follow the
\* Connection and If-Modified-Since lines of the block whatever the letter
\* case of their names: an HTTP/1.1 request with "connection: close" is
\* answered Connection: close and the handler does not await another
\* request.
C28_CaseInsensitiveNames ==
  \A c \in Conns : \A j \in Answered(c) :
    LET w     == wire[c][j]
        block == consumed[c][w.req]
        req   == RequestOf(c, w)
        conn  == Lower(LastValueAnyCase(block, "connection"))
        since == LastValueAnyCase(block, "if-modified-since")
        p     == Resolve(req.path)
        close == IF req.version = V11 THEN conn = << "close" >>
                 ELSE conn # << "keep-alive" >>
    IN  /\ w.headers["Connection"] =
             IF close THEN << "close" >> ELSE << "keep-alive" >>
        /\ close => Len(consumed[c]) = w.req
        /\ (ExistingFile(p) /\ Mapped(p)) =>
             (w.status = 304 <=>
                (ParseDate(since) >= 0 /\ FileAt(p).mtime2 <= 2 * ParseDate(since)))

\* The status the claimed precedence gives a header block from its request
\* line alone, 0 when the line passes every check
PrecedenceStatus(request_bytes) ==
  LET line  == SplitCRLF(request_bytes)[1]
      parts == SplitWs(line)
  IN  IF Len(parts) # 3 THEN 400
      ELSE IF parts[3] \notin {V10, V11} THEN 505
      ELSE IF Upper(parts[1]) \notin {GET, HEAD} THEN 501
      ELSE IF ~StartsWith(parts[2], << "/" >>) THEN 400
      ELSE IF ~InTree(abspath(Cwd \o DecodedPath(request_bytes))) THEN 400
      ELSE 0

\* C29 as claimed: every header block answered gets the one status its
\* request line has in the order token count (400), version (505), method
\* (501), target not starting with "/" or leaving the root (400), whatever
\* its header lines are; a block that passes is not refused by the parser.
C29_ParserPrecedence ==
  \A c \in Conns : \A j \in 1..Len(wire[c]) :
    LET w == wire[c][j]
    IN  (w.ok /\ w.req >= 1) =>
          LET s == PrecedenceStatus(consumed[c][w.req])
          IN  /\ s # 0 => w.status = s
              /\ s = 0 <=> parse_request(consumed[c][w.req]).err = ""
              /\ \A k \in 1..Len(wire[c]) :
                   (wire[c][k].ok /\ wire[c][k].req = w.req) => k = j

\* C30: the worker holding the log lock is inside its log write and nowhere
\* else (not in a read, a send, or building a response), and can always
\* finish it; while a worker holds the lock it reads, writes and consumes
\* nothing, and its next step appends its one line and releases; every
\* holder eventually releases and every worker that has written a response
\* and tries to log eventually has logged, whatever the client of the other
\* connection does or fails to do.
C30_LogLockScope ==
  /\ [](\A c \in Conns :
          log_lock = c =>
            /\ pc[c] = "logging"
            /\ ENABLED LogWrite(c))
  /\ [][\A c \in Conns :
          log_lock = c =>
            /\ wire'[c] = wire[c] /\ received'[c] = received[c]
            /\ consumed'[c] = consumed[c] /\ buffer'[c] = buffer[c]
            /\ log_lock' \in {c, 0}
            /\ log_lock' = 0 => (Len(log') = Len(log) + 1 /\ LastOf(log').client = c)
            /\ log_lock' = c => (log' = log /\ pc'[c] = pc[c])]_vars
  /\ \A c \in Conns : (log_lock = c) ~> (log_lock # c)
  /\ \A c \in Conns : (pc[c] = "log") ~> (pc[c] \notin {"log", "logging"})

\* C30 witness: connection 1's client has stalled in the middle of a request
\* and its worker waits in the read, while connection 2 was answered, logged
\* and closed
C30_Witness ==
  /\ Blocked(1) /\ buffer[1] # << >>
  /\ pc[2] = "done"
  /\ Len(Responses(2)) = 1 /\ LogCount(2) = 1

=============================================================================
